---- MODULE Spec2Model ----
(***************************************************************************)
(* A model of devdocs/devdocs_service.py: the DevDocsService cache client. *)
(*                                                                         *)
(* Python strings are sequences of one-character strings, so that split,   *)
(* strip, lower, the regular expression, int() and difflib's matching are  *)
(* computed on characters as the code computes them.  The text of a file   *)
(* is the sequence of tokens json.dump writes: punctuation, object keys,   *)
(* the separating blanks and, between quotes, the characters of a string.  *)
(* The alphabet of the catalogues holds no quote, backslash or control     *)
(* character, so no string needs an escape.                                *)
(***************************************************************************)
EXTENDS Integers, Sequences, FiniteSets, TLC

VARIABLES
    fs,             \* the cache location on disk
    docs_to_fetch,  \* self.docs_to_fetch
    pc,             \* "new" before __init__, "idle" between calls, "index_loop"
    frame,          \* index()'s locals: the filtered docs and the loop position
    call,           \* the operation in progress or last finished, with its arguments
    ret,            \* its outcome: returned value or propagated error
    net,            \* the remote calls the operation made, in order, with their answers
    persisted,      \* per entries file, the object fetch_doc_entries last dumped into it
    input           \* the arguments awaiting the one call of a single-call specification

vars == <<fs, docs_to_fetch, pc, frame, call, ret, net, persisted, input>>

----------------------------------------------------------------------------
(* Bounds of the model. *)

\* longest list handed to set_docs_to_fetch
MaxDocs == 2
\* longest remote index answered to set_docs_to_fetch / version_fallback alone
MaxRemote == 3
\* longest remote index answered to index()
MaxIndex == 2
\* longest `entries` array or index file of the query specifications
MaxEntries == 3

----------------------------------------------------------------------------
(* Sequences and Python strings. *)

Range(s) == {s[i] : i \in 1..Len(s)}

\* all sequences over S of length at most n
SeqsUpTo(S, n) == UNION {[1..k -> S] : k \in 0..n}

\* those without a repeated element
InjSeqsUpTo(S, n) == {s \in SeqsUpTo(S, n) : \A i, j \in 1..Len(s) : s[i] = s[j] => i = j}

Whitespace == {" "}

LowerChar(c) ==
    CASE c = "F" -> "f"
      [] c = "G" -> "g"
      [] c = "O" -> "o"
      [] c = "P" -> "p"
      [] c = "Y" -> "y"
      [] OTHER -> c

\* str.lower()
lower(s) == [i \in 1..Len(s) |-> LowerChar(s[i])]

\* str.strip()
strip(s) ==
    LET inner == {i \in 1..Len(s) : s[i] \notin Whitespace}
    IN  IF inner = {} THEN <<>>
        ELSE LET lo == CHOOSE i \in inner : \A j \in inner : i <= j
                 hi == CHOOSE i \in inner : \A j \in inner : j <= i
             IN  SubSeq(s, lo, hi)

\* needle in hay (substring test)
Contains(needle, hay) ==
    \E k \in 0..(Len(hay) - Len(needle)) :
        \A i \in 1..Len(needle) : hay[k + i] = needle[i]

\* '~' in s
HasTilde(s) == \E k \in 1..Len(s) : s[k] = "~"

RECURSIVE split(_, _)
\* s.split(sep) for a one-character sep: always at least one part
split(s, sep) ==
    LET hits == {k \in 1..Len(s) : s[k] = sep}
    IN  IF hits = {} THEN <<s>>
        ELSE LET k == CHOOSE x \in hits : \A y \in hits : x <= y
             IN  <<SubSeq(s, 1, k - 1)>> \o split(SubSeq(s, k + 1, Len(s)), sep)

\* s.split('~', 1)[1]: what follows the first '~' (s holds one)
AfterFirstTilde(s) ==
    LET hits == {k \in 1..Len(s) : s[k] = "~"}
        k == CHOOSE x \in hits : \A y \in hits : x <= y
    IN  SubSeq(s, k + 1, Len(s))

----------------------------------------------------------------------------
(* json.dump and json.load, on the shapes the service stores. *)

Quote == "\""

DumpStr(s) == <<Quote>> \o s \o <<Quote>>

DumpDoc(d) ==
    <<"{", "slug", ":", " ">> \o DumpStr(d.slug) \o <<",", " ", "name", ":", " ">>
        \o DumpStr(d.name) \o <<"}">>

DumpEntry(e) == <<"{", "name", ":", " ">> \o DumpStr(e.name) \o <<"}">>

RECURSIVE DumpDocItems(_)
DumpDocItems(ds) ==
    IF ds = <<>> THEN <<>>
    ELSE IF Len(ds) = 1 THEN DumpDoc(ds[1])
    ELSE DumpDoc(ds[1]) \o <<",", " ">> \o DumpDocItems(Tail(ds))

RECURSIVE DumpEntryItems(_)
DumpEntryItems(es) ==
    IF es = <<>> THEN <<>>
    ELSE IF Len(es) = 1 THEN DumpEntry(es[1])
    ELSE DumpEntry(es[1]) \o <<",", " ">> \o DumpEntryItems(Tail(es))

\* json.dump(docs, f) for a list of descriptors
DumpDocs(ds) == <<"[">> \o DumpDocItems(ds) \o <<"]">>

\* json.dump(entries, f) for the object of the entries endpoint
DumpEntriesObj(o) ==
    <<"{", "entries", ":", " ", "[">> \o DumpEntryItems(o.entries) \o <<"]", "}">>

\* A parse: whether it succeeded, the value, and the position after it (0 after
\* a failure, which every later step passes on).
Fail == [ok |-> FALSE, val |-> <<>>, next |-> 0]
Got(v, n) == [ok |-> TRUE, val |-> v, next |-> n]

RECURSIVE SkipWs(_, _)
SkipWs(t, p) == IF p <= Len(t) /\ t[p] \in Whitespace THEN SkipWs(t, p + 1) ELSE p

\* the token at q is x; the position after it, or 0
TokenAt(t, q, x) == IF q <= Len(t) /\ t[q] = x THEN q + 1 ELSE 0

\* the next token from p on, after blanks, is x; the position after it, or 0
Expect(t, p, x) == IF p = 0 THEN 0 ELSE TokenAt(t, SkipWs(t, p), x)

RECURSIVE ExpectAll(_, _, _)
ExpectAll(t, p, xs) ==
    IF p = 0 THEN 0
    ELSE IF xs = <<>> THEN p
    ELSE ExpectAll(t, Expect(t, p, xs[1]), Tail(xs))

RECURSIVE StrEnd(_, _)
\* the closing quote of the string whose characters start at q, or 0
StrEnd(t, q) ==
    IF q > Len(t) THEN 0 ELSE IF t[q] = Quote THEN q ELSE StrEnd(t, q + 1)

StrBetween(t, q, e) == IF e = 0 THEN Fail ELSE Got(SubSeq(t, q, e - 1), e + 1)

StrFrom(t, q) == IF q = 0 THEN Fail ELSE StrBetween(t, q, StrEnd(t, q))

\* a string literal
ParseStr(t, p) == StrFrom(t, Expect(t, p, Quote))

\* the value v, once the token x closes it at position p
Closed(v, p) == IF p = 0 THEN Fail ELSE Got(v, p)

DocEnd(t, s, n) == Closed([slug |-> s.val, name |-> n.val], Expect(t, n.next, "}"))

DocName(t, s) == DocEnd(t, s, ParseStr(t, ExpectAll(t, s.next, <<",", "name", ":">>)))

\* {"slug": ..., "name": ...}
ParseDoc(t, p) == DocName(t, ParseStr(t, ExpectAll(t, p, <<"{", "slug", ":">>)))

EntryEnd(t, n) == Closed([name |-> n.val], Expect(t, n.next, "}"))

\* {"name": ...}
ParseEntry(t, p) == EntryEnd(t, ParseStr(t, ExpectAll(t, p, <<"{", "name", ":">>)))

RECURSIVE ParseDocItems(_, _, _)
\* after an item: "]" ends the array, "," announces another item
AfterDoc(t, d, acc) ==
    IF ~d.ok THEN Fail
    ELSE IF Expect(t, d.next, "]") # 0 THEN Got(Append(acc, d.val), Expect(t, d.next, "]"))
    ELSE ParseDocItems(t, Expect(t, d.next, ","), Append(acc, d.val))

ParseDocItems(t, p, acc) == AfterDoc(t, ParseDoc(t, p), acc)

RECURSIVE ParseEntryItems(_, _, _)
AfterEntry(t, d, acc) ==
    IF ~d.ok THEN Fail
    ELSE IF Expect(t, d.next, "]") # 0 THEN Got(Append(acc, d.val), Expect(t, d.next, "]"))
    ELSE ParseEntryItems(t, Expect(t, d.next, ","), Append(acc, d.val))

ParseEntryItems(t, p, acc) == AfterEntry(t, ParseEntry(t, p), acc)

RECURSIVE ParseStrItems(_, _, _)
AfterStr(t, d, acc) ==
    IF ~d.ok THEN Fail
    ELSE IF Expect(t, d.next, "]") # 0 THEN Got(Append(acc, d.val), Expect(t, d.next, "]"))
    ELSE ParseStrItems(t, Expect(t, d.next, ","), Append(acc, d.val))

ParseStrItems(t, p, acc) == AfterStr(t, ParseStr(t, p), acc)

DocArrayFrom(t, a) ==
    IF a = 0 THEN Fail
    ELSE IF Expect(t, a, "]") # 0 THEN Got(<<>>, Expect(t, a, "]"))
    ELSE ParseDocItems(t, a, <<>>)

EntryArrayFrom(t, a) ==
    IF a = 0 THEN Fail
    ELSE IF Expect(t, a, "]") # 0 THEN Got(<<>>, Expect(t, a, "]"))
    ELSE ParseEntryItems(t, a, <<>>)

StrArrayFrom(t, a) ==
    IF a = 0 THEN Fail
    ELSE IF Expect(t, a, "]") # 0 THEN Got(<<>>, Expect(t, a, "]"))
    ELSE ParseStrItems(t, a, <<>>)

\* the parse r consumed the whole text, but for trailing blanks
Whole(t, r) == IF r.ok /\ SkipWs(t, r.next) = Len(t) + 1 THEN r ELSE Fail

\* json.load(f) of an index file: a list of descriptors, or JSONDecodeError
LoadDocs(t) == Whole(t, DocArrayFrom(t, Expect(t, 1, "[")))

EntriesObjEnd(t, es) == Closed([entries |-> es.val], Expect(t, es.next, "}"))

\* json.load(f) of an entries file: the object with its `entries`
LoadEntriesObj(t) ==
    Whole(t, EntriesObjEnd(t, EntryArrayFrom(t, ExpectAll(t, 1, <<"{", "entries", ":", "[">>))))

\* json.loads(docs) of set_docs_to_fetch: a list of strings, or an error
LoadStrList(t) == Whole(t, StrArrayFrom(t, Expect(t, 1, "[")))

RECURSIVE DumpStrItems(_)
DumpStrItems(ss) ==
    IF ss = <<>> THEN <<>>
    ELSE IF Len(ss) = 1 THEN DumpStr(ss[1])
    ELSE DumpStr(ss[1]) \o <<",", " ">> \o DumpStrItems(Tail(ss))

\* the JSON text a caller writes for a list of identifiers
DumpStrList(ss) == <<"[">> \o DumpStrItems(ss) \o <<"]">>

----------------------------------------------------------------------------
(* Version resolution: parse_version_to_tuple and version_fallback. *)

Digit == {"0", "1", "2", "3", "4", "5", "6", "7", "8", "9"}

DigitValue(c) ==
    CASE c = "0" -> 0 [] c = "1" -> 1 [] c = "2" -> 2 [] c = "3" -> 3 [] c = "4" -> 4
      [] c = "5" -> 5 [] c = "6" -> 6 [] c = "7" -> 7 [] c = "8" -> 8 [] c = "9" -> 9

RECURSIVE DigitsValue(_)
DigitsValue(ds) ==
    IF ds = <<>> THEN 0
    ELSE 10 * DigitsValue(SubSeq(ds, 1, Len(ds) - 1)) + DigitValue(ds[Len(ds)])

\* the digits of a literal int() accepts: blanks around, one optional sign
IntBody(part) ==
    LET p == strip(part)
    IN  IF p # <<>> /\ p[1] \in {"+", "-"} THEN Tail(p) ELSE p

\* int(part) does not raise ValueError
IsIntLiteral(part) ==
    LET b == IntBody(part) IN b # <<>> /\ \A i \in 1..Len(b) : b[i] \in Digit

\* int(part)
int(part) ==
    LET p == strip(part)
    IN  IF p[1] = "-" THEN 0 - DigitsValue(IntBody(part)) ELSE DigitsValue(IntBody(part))

\* a segment that is no integer sorts below every number
SegmentValue_Negative(part) == IF IsIntLiteral(part) THEN int(part) ELSE 0 - 1

\* the value a segment of a version contributes: int(part), or 0 on ValueError
SegmentValue(part) == IF IsIntLiteral(part) THEN int(part) ELSE 0

parse_version_to_tuple(version_str) ==
    LET parts == split(version_str, ".")
    IN  [i \in 1..Len(parts) |-> SegmentValue(parts[i])]

\* Python's a < b on tuples of integers
TupleLess(a, b) ==
    LET n == IF Len(a) < Len(b) THEN Len(a) ELSE Len(b)
        diff == {i \in 1..n : a[i] # b[i]}
    IN  IF diff = {} THEN Len(a) < Len(b)
        ELSE LET k == CHOOSE i \in diff : \A j \in diff : i <= j
             IN  a[k] < b[k]

\* one step of the stable sort on the version: x goes after every pair that is
\* not greater than it
InsertByVersion(sorted, x) ==
    LET later == {i \in 1..Len(sorted) : TupleLess(x[2], sorted[i][2])}
    IN  IF later = {} THEN Append(sorted, x)
        ELSE LET k == CHOOSE i \in later : \A j \in later : i <= j
             IN  SubSeq(sorted, 1, k - 1) \o <<x>> \o SubSeq(sorted, k, Len(sorted))

RECURSIVE SortByVersion(_)
\* slug_version_pairs.sort(key=lambda x: x[1])
SortByVersion(pairs) ==
    IF pairs = <<>> THEN <<>>
    ELSE InsertByVersion(SortByVersion(SubSeq(pairs, 1, Len(pairs) - 1)), pairs[Len(pairs)])

\* the places of the '~' that ^(.+?)~(.+)$ can match at: something before, something after
PatternHits(slug) == {k \in 2..(Len(slug) - 1) : slug[k] = "~"}

\* pattern.match(slug)
PatternMatch(slug) == PatternHits(slug) # {}

\* match.group(1): the lazy group stops at the first such '~'
BaseName(slug) ==
    LET k == CHOOSE x \in PatternHits(slug) : \A y \in PatternHits(slug) : x <= y
    IN  SubSeq(slug, 1, k - 1)

\* the slugs base_map collects under base, in the order of the remote index
GroupOf(all_docs, base) ==
    LET InGroup(d) == PatternMatch(d.slug) /\ BaseName(d.slug) = base
        ds == SelectSeq(all_docs, InGroup)
    IN  [i \in 1..Len(ds) |-> ds[i].slug]

\* the group left in the order of the remote index
SortedGroup_Unsorted(slugs) == slugs

\* the group sorted ascending by version
SortedGroup(slugs) ==
    LET pairs == [i \in 1..Len(slugs) |->
                    <<slugs[i], parse_version_to_tuple(AfterFirstTilde(slugs[i]))>>]
        sorted == SortByVersion(pairs)
    IN  [i \in 1..Len(sorted) |-> sorted[i][1]]

\* base_map after both loops
base_map(all_docs) ==
    LET bases == {BaseName(d.slug) : d \in {x \in Range(all_docs) : PatternMatch(x.slug)}}
    IN  [b \in bases |-> SortedGroup(GroupOf(all_docs, b))]

\* base_map[doc][-1]
HighestVersionedSlug(slugs) == slugs[Len(slugs)]

\* a versioned identifier is resolved through its base as well
ResolveDoc_AnyBase(doc, bm) ==
    IF doc \in DOMAIN bm THEN HighestVersionedSlug(bm[doc])
    ELSE IF PatternMatch(doc) /\ BaseName(doc) \in DOMAIN bm
         THEN HighestVersionedSlug(bm[BaseName(doc)])
    ELSE doc

\* what the last loop appends for one requested identifier
ResolveDoc(doc, bm) ==
    IF HasTilde(doc) THEN doc
    ELSE IF doc \in DOMAIN bm THEN HighestVersionedSlug(bm[doc])
    ELSE doc

\* version_fallback past the fetch: new_docs, given the remote index
version_fallback(all_docs, docs) ==
    LET bm == base_map(all_docs)
    IN  [i \in 1..Len(docs) |-> ResolveDoc(docs[i], bm)]

----------------------------------------------------------------------------
(* Name filter and relevance ranking of the query operations. *)

\* the filter is compared as typed, case and all
NameMatches_CaseSensitive(query, x) == Contains(strip(query), x.name)

\* query.strip().lower() in x['name'].lower()
NameMatches(query, x) == Contains(lower(strip(query)), lower(x.name))

\* [x for x in data if query.strip().lower() in x['name'].lower()]
FilterByName(data, query) ==
    LET Keep(x) == NameMatches(query, x) IN SelectSeq(data, Keep)

\* how far a[i..] and b[j..] agree, inside a[..ahi] and b[..bhi]
RunLength(a, b, i, j, ahi, bhi) ==
    LET room == IF ahi - i < bhi - j THEN ahi - i + 1 ELSE bhi - j + 1
        runs == {k \in 0..room : \A x \in 0..(k - 1) : a[i + x] = b[j + x]}
    IN  CHOOSE k \in runs : \A m \in runs : m <= k

\* SequenceMatcher.find_longest_match on a[alo..ahi], b[blo..bhi]: a longest
\* block, the one starting earliest in a, then earliest in b (no junk; autojunk
\* needs 200 elements)
find_longest_match(a, b, alo, ahi, blo, bhi) ==
    LET cands == (alo..ahi) \X (blo..bhi)
        size(c) == RunLength(a, b, c[1], c[2], ahi, bhi)
    IN  IF cands = {} THEN [i |-> alo, j |-> blo, size |-> 0]
        ELSE LET best == CHOOSE c \in cands :
                            \A d \in cands :
                                \/ size(d) < size(c)
                                \/ /\ size(d) = size(c)
                                   /\ \/ c[1] < d[1]
                                      \/ c[1] = d[1] /\ c[2] <= d[2]
             IN  [i |-> best[1], j |-> best[2], size |-> size(best)]

RECURSIVE MatchedChars(_, _, _, _, _, _)
\* the total size of get_matching_blocks: the longest block, then the same to
\* its left and to its right
MatchedChars(a, b, alo, ahi, blo, bhi) ==
    LET m == find_longest_match(a, b, alo, ahi, blo, bhi)
    IN  IF m.size = 0 THEN 0
        ELSE m.size
             + MatchedChars(a, b, alo, m.i - 1, blo, m.j - 1)
             + MatchedChars(a, b, m.i + m.size, ahi, m.j + m.size, bhi)

\* SequenceMatcher(None, a, b).ratio() as the fraction num/den: 2.0 * M / T,
\* and 1.0 when both are empty
ratio(a, b) ==
    IF Len(a) + Len(b) = 0 THEN [num |-> 1, den |-> 1]
    ELSE [num |-> 2 * MatchedChars(a, b, 1, Len(a), 1, Len(b)), den |-> Len(a) + Len(b)]

\* r < s on the two floats (small fractions round to distinct, ordered doubles)
RatioLess(r, s) == r.num * s.den < s.num * r.den

\* the sort key of an entry
Relevance(x, query) == ratio(x.name, query)

\* one step of the stable descending sort: x goes after every entry that does
\* not score below it
InsertByRelevance(sorted, x, query) ==
    LET lower_ones == {i \in 1..Len(sorted) :
                          RatioLess(Relevance(sorted[i], query), Relevance(x, query))}
    IN  IF lower_ones = {} THEN Append(sorted, x)
        ELSE LET k == CHOOSE i \in lower_ones : \A j \in lower_ones : i <= j
             IN  SubSeq(sorted, 1, k - 1) \o <<x>> \o SubSeq(sorted, k, Len(sorted))

RECURSIVE SortByRelevance(_, _)
\* sorted(entries, key=ratio, reverse=True)
SortByRelevance(entries, query) ==
    IF entries = <<>> THEN <<>>
    ELSE InsertByRelevance(SortByRelevance(SubSeq(entries, 1, Len(entries) - 1), query),
                           entries[Len(entries)], query)

\* `if query:` is false for None and for ""
Truthy(query) == query # <<>>

\* the filtered entries are returned in file order
SelectEntries_Unranked(entries, query) ==
    IF Truthy(query) THEN FilterByName(entries, query) ELSE entries

\* get_doc_entries past the load: the entries it returns
SelectEntries(entries, query) ==
    IF Truthy(query) THEN SortByRelevance(FilterByName(entries, query), query)
    ELSE entries

\* get_docs past the load: the descriptors it returns
SelectDocs(data, query) ==
    IF Truthy(query) THEN FilterByName(data, query) ELSE data

----------------------------------------------------------------------------
(* The cache location and the records of a call. *)

NoFile == [exists |-> FALSE, text |-> <<>>]
File(t) == [exists |-> TRUE, text |-> t]
NoFiles == [s \in {} |-> NoFile]

\* self.cache_dir does not exist
MissingCache ==
    [cache_dir |-> FALSE, index_file |-> NoFile, entries_dir |-> FALSE, entries |-> NoFiles]

\* self.cache_dir exists and is empty
EmptyCache == [MissingCache EXCEPT !.cache_dir = TRUE]

\* os.path.exists(os.path.join(self.entries_dir, slug + ".json"))
EntriesFileExists(f, slug) == f.entries_dir /\ slug \in DOMAIN f.entries

\* with open(entries_file, 'w') as f: f.write(text)
WriteEntriesFile(f, slug, text) ==
    [f EXCEPT !.entries = [s \in DOMAIN f.entries \cup {slug} |->
                              IF s = slug THEN File(text) ELSE f.entries[s]]]

Remember(p, slug, obj) ==
    [s \in DOMAIN p \cup {slug} |-> IF s = slug THEN obj ELSE p[s]]

Call(op, docs, slug, query) == [op |-> op, docs |-> docs, slug |-> slug, query |-> query]
NoCall == Call("none", <<>>, <<>>, <<>>)

\* a list argument, or a str argument holding JSON text
ListArg(l) == [is_str |-> FALSE, val |-> l]
StrArg(t) == [is_str |-> TRUE, val |-> t]

Returned(v) == [status |-> "ok", value |-> v]
Raised == [status |-> "error", value |-> <<>>]
Running == [status |-> "running", value |-> <<>>]
NoReturn == [status |-> "none", value |-> <<>>]

\* None, and a value that is not None
None == <<>>
Some(v) == <<v>>

\* requests.get(url) followed by r.json(): the answer, or an exception
Answer(body) == [ok |-> TRUE, body |-> body]
Failure == [ok |-> FALSE, body |-> <<>>]

\* the record of one remote call: DEVDOCS_INDEX_ALL_URL, or DEVDOCS_DOC_ENTRIES_URL
\* with %slug% replaced
IndexCall(resp) == [kind |-> "index", slug |-> <<>>, ok |-> resp.ok, body |-> resp.body]
EntriesCall(slug, resp) ==
    [kind |-> "entries", slug |-> slug, ok |-> resp.ok, body |-> resp.body]

NoFrame == [docs |-> <<>>, i |-> 0]
NoInput == [op |-> "none", docs |-> ListArg(<<>>), resp |-> Failure, slug |-> <<>>,
            query |-> <<>>]

----------------------------------------------------------------------------
(* The operations. *)

\* the index file is written anew on every start
ensure_cache_dirs_Rewrite(f) ==
    [f EXCEPT !.cache_dir = TRUE, !.index_file = File(DumpDocs(<<>>)), !.entries_dir = TRUE]

\* the index file is created empty
ensure_cache_dirs_Touch(f) ==
    [f EXCEPT !.cache_dir = TRUE,
              !.index_file = IF f.index_file.exists THEN f.index_file ELSE File(<<>>),
              !.entries_dir = TRUE]

\* ensure_cache_dirs on the cache location f
ensure_cache_dirs(f) ==
    LET a == IF ~f.cache_dir THEN [f EXCEPT !.cache_dir = TRUE] ELSE f
        b == IF ~a.index_file.exists
             THEN [a EXCEPT !.index_file = File(DumpDocs(<<>>))] ELSE a
    IN  IF ~b.entries_dir THEN [b EXCEPT !.entries_dir = TRUE] ELSE b

\* DevDocsService(logger, cache_dir)
Construct ==
    /\ pc = "new"
    /\ docs_to_fetch' = <<>>
    /\ fs' = ensure_cache_dirs(fs)
    /\ pc' = "idle"
    /\ call' = Call("__init__", <<>>, <<>>, <<>>)
    /\ ret' = Returned(None)
    /\ net' = <<>>
    /\ UNCHANGED <<frame, persisted, input>>

EnsureCacheDirs ==
    /\ pc = "idle"
    /\ fs' = ensure_cache_dirs(fs)
    /\ call' = Call("ensure_cache_dirs", <<>>, <<>>, <<>>)
    /\ ret' = Returned(None)
    /\ net' = <<>>
    /\ UNCHANGED <<docs_to_fetch, pc, frame, persisted, input>>

\* the list set_docs_to_fetch hands to version_fallback
DocsArgument(docs) ==
    IF docs.is_str
    THEN IF LoadStrList(docs.val).ok THEN LoadStrList(docs.val).val ELSE <<>>
    ELSE docs.val

\* set_docs_to_fetch(docs), the remote index answering resp
SetDocsToFetch(docs, resp) ==
    /\ pc = "idle"
    /\ call' = Call("set_docs_to_fetch", docs, <<>>, <<>>)
    /\ net' = <<IndexCall(resp)>>
    /\ IF resp.ok
       THEN /\ docs_to_fetch' = version_fallback(resp.body, DocsArgument(docs))
            /\ ret' = Returned(None)
       ELSE /\ docs_to_fetch' = docs_to_fetch
            /\ ret' = Raised
    /\ UNCHANGED <<fs, pc, frame, persisted, input>>

\* the remote index is kept whole
Requested_All(docs, wanted) == docs

\* [x for x in docs if x['slug'] in self.docs_to_fetch]
Requested(docs, wanted) ==
    LET Wanted(x) == x.slug \in Range(wanted) IN SelectSeq(docs, Wanted)

\* index() up to its loop: the remote index is fetched, filtered and written
IndexStart(resp) ==
    /\ pc = "idle"
    /\ call' = Call("index", <<>>, <<>>, <<>>)
    /\ net' = <<IndexCall(resp)>>
    /\ IF resp.ok /\ fs.cache_dir
       THEN /\ fs' = [fs EXCEPT !.index_file = File(DumpDocs(Requested(resp.body, docs_to_fetch)))]
            /\ frame' = [docs |-> Requested(resp.body, docs_to_fetch), i |-> 1]
            /\ pc' = "index_loop"
            /\ ret' = Running
       ELSE /\ ret' = Raised
            /\ UNCHANGED <<fs, frame, pc>>
    /\ UNCHANGED <<docs_to_fetch, persisted, input>>

\* an entries file that exists is kept as it is
fetch_doc_entries_KeepOld(f, doc, resp) ==
    IF resp.ok /\ f.entries_dir /\ ~EntriesFileExists(f, doc)
    THEN WriteEntriesFile(f, doc, DumpEntriesObj(resp.body)) ELSE f

\* fetch_doc_entries(doc) past the remote call answering resp: the cache location
\* after it, unchanged when the call or the open raised
fetch_doc_entries(f, doc, resp) ==
    IF resp.ok /\ f.entries_dir THEN WriteEntriesFile(f, doc, DumpEntriesObj(resp.body)) ELSE f

\* fetch_doc_entries raises
FetchRaises(f, resp) == ~resp.ok \/ ~f.entries_dir

\* a failed fetch is skipped and the loop goes on
IndexFetch_Continue(resp) ==
    /\ pc = "index_loop"
    /\ frame.i <= Len(frame.docs)
    /\ net' = Append(net, EntriesCall(frame.docs[frame.i].slug, resp))
    /\ fs' = fetch_doc_entries(fs, frame.docs[frame.i].slug, resp)
    /\ frame' = [frame EXCEPT !.i = frame.i + 1]
    /\ persisted' = IF FetchRaises(fs, resp) THEN persisted
                    ELSE Remember(persisted, frame.docs[frame.i].slug, resp.body)
    /\ UNCHANGED <<pc, ret, docs_to_fetch, call, input>>

\* one turn of index()'s loop: fetch_doc_entries(doc['slug'])
IndexFetch(resp) ==
    /\ pc = "index_loop"
    /\ frame.i <= Len(frame.docs)
    /\ LET doc == frame.docs[frame.i].slug
       IN  /\ net' = Append(net, EntriesCall(doc, resp))
           /\ fs' = fetch_doc_entries(fs, doc, resp)
           /\ IF FetchRaises(fs, resp)
              THEN /\ pc' = "idle"
                   /\ frame' = NoFrame
                   /\ ret' = Raised
                   /\ UNCHANGED persisted
              ELSE /\ frame' = [frame EXCEPT !.i = frame.i + 1]
                   /\ persisted' = Remember(persisted, doc, resp.body)
                   /\ UNCHANGED <<pc, ret>>
    /\ UNCHANGED <<docs_to_fetch, call, input>>

\* index() returns once the loop is through
IndexDone ==
    /\ pc = "index_loop"
    /\ frame.i > Len(frame.docs)
    /\ pc' = "idle"
    /\ frame' = NoFrame
    /\ ret' = Returned(None)
    /\ UNCHANGED <<fs, docs_to_fetch, call, net, persisted, input>>

\* fetch_doc_entries(doc) called on its own
FetchDocEntries(doc, resp) ==
    /\ pc = "idle"
    /\ call' = Call("fetch_doc_entries", <<>>, doc, <<>>)
    /\ net' = <<EntriesCall(doc, resp)>>
    /\ fs' = fetch_doc_entries(fs, doc, resp)
    /\ IF FetchRaises(fs, resp)
       THEN ret' = Raised /\ UNCHANGED persisted
       ELSE ret' = Returned(None) /\ persisted' = Remember(persisted, doc, resp.body)
    /\ UNCHANGED <<docs_to_fetch, pc, frame, input>>

\* get_docs(query): what it returns, or the error of open / json.load
get_docs(f, query) ==
    LET data == LoadDocs(f.index_file.text)
    IN  IF f.index_file.exists /\ data.ok THEN Returned(SelectDocs(data.val, query))
        ELSE Raised

GetDocs(query) ==
    /\ pc = "idle"
    /\ call' = Call("get_docs", <<>>, <<>>, query)
    /\ ret' = get_docs(fs, query)
    /\ net' = <<>>
    /\ UNCHANGED <<fs, docs_to_fetch, pc, frame, persisted, input>>

\* get_doc_entries(lang_slug, query)
get_doc_entries(f, lang_slug, query) ==
    IF ~EntriesFileExists(f, lang_slug) THEN Returned(<<>>)
    ELSE LET data == LoadEntriesObj(f.entries[lang_slug].text)
         IN  IF data.ok THEN Returned(SelectEntries(data.val.entries, query)) ELSE Raised

GetDocEntries(lang_slug, query) ==
    /\ pc = "idle"
    /\ call' = Call("get_doc_entries", <<>>, lang_slug, query)
    /\ ret' = get_doc_entries(fs, lang_slug, query)
    /\ net' = <<>>
    /\ UNCHANGED <<fs, docs_to_fetch, pc, frame, persisted, input>>

\* get_doc_by_slug(doc_slug): the first descriptor with that slug, or None
get_doc_by_slug(f, doc_slug) ==
    LET data == LoadDocs(f.index_file.text)
        hits == IF data.ok THEN {i \in 1..Len(data.val) : data.val[i].slug = doc_slug} ELSE {}
    IN  IF ~(f.index_file.exists /\ data.ok) THEN Raised
        ELSE IF hits = {} THEN Returned(None)
        ELSE Returned(Some(data.val[CHOOSE i \in hits : \A j \in hits : i <= j]))

GetDocBySlug(doc_slug) ==
    /\ pc = "idle"
    /\ call' = Call("get_doc_by_slug", <<>>, doc_slug, <<>>)
    /\ ret' = get_doc_by_slug(fs, doc_slug)
    /\ net' = <<>>
    /\ UNCHANGED <<fs, docs_to_fetch, pc, frame, persisted, input>>

----------------------------------------------------------------------------
(* The service: any sequence of calls on one DevDocsService. *)

P1 == [slug |-> <<"p", "~", "1">>, name |-> <<"P", "y">>]
Go == [slug |-> <<"g", "o">>, name |-> <<"G", "o">>]

\* the descriptors the remote index is made of
SvcDocs == {P1, Go}

\* the identifiers a caller asks for
SvcNames == {<<"p">>, <<"g", "o">>}

\* the slugs the calls name
SvcSlugs == {d.slug : d \in SvcDocs}

Foo == [name |-> <<"f", "o", "o">>]
FooBar == [name |-> <<"f", "o", "o", "b">>]

\* the objects the entries endpoint answers
SvcEntries == {[entries |-> <<Foo>>], [entries |-> <<FooBar, Foo>>]}

\* the arguments of set_docs_to_fetch: lists, a JSON text, a text that is no JSON
SvcDocsArgs ==
    {ListArg(l) : l \in SeqsUpTo(SvcNames, MaxDocs)}
        \cup {StrArg(DumpStrList(<<<<"p">>>>)), StrArg(<<"[", Quote, "p">>)}

\* what the index endpoint may answer
IndexAnswers(docs, n) == {Answer(b) : b \in InjSeqsUpTo(docs, n)} \cup {Failure}

\* what the entries endpoint may answer
EntriesAnswers(objs) == {Answer(o) : o \in objs} \cup {Failure}

Init ==
    /\ fs \in {MissingCache, EmptyCache}
    /\ docs_to_fetch = <<>>
    /\ pc = "new"
    /\ frame = NoFrame
    /\ call = NoCall
    /\ ret = NoReturn
    /\ net = <<>>
    /\ persisted = NoFiles
    /\ input = NoInput

Next ==
    \/ Construct
    \/ EnsureCacheDirs
    \/ \E docs \in SvcDocsArgs, resp \in IndexAnswers(SvcDocs, MaxIndex) :
          SetDocsToFetch(docs, resp)
    \/ \E resp \in IndexAnswers(SvcDocs, MaxIndex) : IndexStart(resp)
    \/ \E resp \in EntriesAnswers(SvcEntries) : IndexFetch(resp)
    \/ IndexDone
    \/ \E doc \in SvcSlugs, resp \in EntriesAnswers(SvcEntries) : FetchDocEntries(doc, resp)
    \/ GetDocs(<<>>)
    \/ \E s \in SvcSlugs : GetDocEntries(s, <<>>)
    \/ \E s \in SvcSlugs : GetDocBySlug(s)

Spec == Init /\ [][Next]_vars

----------------------------------------------------------------------------
(* Single calls on a constructed service, over wider inputs. *)

\* the cache location __init__ leaves behind
Constructed == ensure_cache_dirs(MissingCache)

Pending(op, docs, resp, slug, query) ==
    [op |-> op, docs |-> docs, resp |-> resp, slug |-> slug, query |-> query]

\* a constructed, idle service on the cache location f, about to serve the call i
Ready(f, p, i) ==
    /\ fs = f
    /\ docs_to_fetch = <<>>
    /\ pc = "idle"
    /\ frame = NoFrame
    /\ call = NoCall
    /\ ret = NoReturn
    /\ net = <<>>
    /\ persisted = p
    /\ input = i

Py(version) == [slug |-> <<"p", "~">> \o version, name |-> <<"P", "y">>]
P39 == Py(<<"3", ".", "9">>)
P310 == Py(<<"3", ".", "1", "0">>)
P38 == Py(<<"3", ".", "8">>)
P4b == Py(<<"4", ".", "b">>)
P40 == Py(<<"4", ".", "0">>)
P4 == Py(<<"4">>)
G1 == [slug |-> <<"g", "o", "~", "1">>, name |-> <<"G", "o">>]

\* the descriptors of the remote index version_fallback sees
ResDocs == {P39, P310, P38, P4b, P40, P4, Go, G1}

\* the identifiers asked for: bare ones and a versioned one
ResNames == {<<"p">>, <<"g", "o">>, P39.slug}

ResolveInit ==
    \E l \in SeqsUpTo(ResNames, MaxDocs), resp \in IndexAnswers(ResDocs, MaxRemote) :
        Ready(Constructed, NoFiles, Pending("set_docs_to_fetch", ListArg(l), resp, <<>>, <<>>))

ResolveCall ==
    /\ call = NoCall
    /\ SetDocsToFetch(input.docs, input.resp)

SpecResolve == ResolveInit /\ [][ResolveCall]_vars

Bar == [name |-> <<"b", "a", "r">>]
FooCap == [name |-> <<"F", "o", "o">>]
FooBarLong == [name |-> <<"f", "o", "o", "b", "a", "r">>]
OFoo == [name |-> <<"o", "f", "o", "o">>]

\* the entries of an entries file
QEntries == {Foo, FooBarLong, FooCap, OFoo, Bar}

\* the filters: exact, blank-padded, other case, a fragment, blanks only, none
QEntryQueries ==
    {<<"f", "o", "o">>, <<" ", "f", "o", "o">>, <<"F", "O">>, <<"o">>, <<" ">>, <<>>}

EntriesInit ==
    \E es \in SeqsUpTo(QEntries, MaxEntries), q \in QEntryQueries :
        Ready(fetch_doc_entries(Constructed, Go.slug, Answer([entries |-> es])),
              Remember(NoFiles, Go.slug, [entries |-> es]),
              Pending("get_doc_entries", ListArg(<<>>), Failure, Go.slug, q))

ListEntries ==
    /\ call = NoCall
    /\ GetDocEntries(input.slug, input.query)

SpecEntries == EntriesInit /\ [][ListEntries]_vars

PyGo == [slug |-> <<"p", "g">>, name |-> <<"p", "y", "g", "o">>]

\* the descriptors of an index file
QDocs == {P310, Go, PyGo}

\* the filters: a prefix, blank-padded in another case, a fragment, no match,
\* blanks only, none
QDocQueries ==
    {<<"P", "y">>, <<" ", "p", "Y", " ">>, <<"g">>, <<"b">>, <<" ">>, <<>>}

DocsInit ==
    \E ds \in InjSeqsUpTo(QDocs, MaxEntries), q \in QDocQueries :
        Ready([Constructed EXCEPT !.index_file = File(DumpDocs(ds))], NoFiles,
              Pending("get_docs", ListArg(ds), Failure, <<>>, q))

ListDocs ==
    /\ call = NoCall
    /\ GetDocs(input.query)

SpecDocs == DocsInit /\ [][ListDocs]_vars

----------------------------------------------------------------------------
(* The properties. *)

\* r lists the elements of s at the positions in keep, and only those, in the
\* order of s
ListsInOrder(r, s, keep) ==
    /\ Len(r) = Cardinality(keep)
    /\ \A i \in keep : r[Cardinality({j \in keep : j <= i})] = s[i]

\* the list a finished set_docs_to_fetch was asked to resolve, and the remote
\* index it was answered
Asked == DocsArgument(call.docs)
RemoteIndex == net[1].body
RemoteSlugs == [i \in 1..Len(RemoteIndex) |-> RemoteIndex[i].slug]
ResolvedOk == call.op = "set_docs_to_fetch" /\ ret.status = "ok"

\* s has the form d~<version>
IsVersionOf(s, d) ==
    /\ Len(s) > Len(d) + 1
    /\ SubSeq(s, 1, Len(d)) = d
    /\ s[Len(d) + 1] = "~"

\* the remote slugs of that form, and the numeric tuple of one of them
Variants(d) == {s \in Range(RemoteSlugs) : IsVersionOf(s, d)}
VersionTuple(s, d) == parse_version_to_tuple(SubSeq(s, Len(d) + 2, Len(s)))

\* a bare identifier with at least one versioned variant in the remote index
Resolvable(d) == ~HasTilde(d) /\ Variants(d) # {}

(* C1: a bare identifier with versioned variants in the remote index resolves *)
(* to one of those variants, and no variant has a greater numeric tuple; with *)
(* p~3.9, p~3.10, p~3.8 the identifier p resolves to p~3.10.                  *)
C1_HighestVersion ==
    ResolvedOk =>
        /\ \A i \in 1..Len(Asked) :
              Resolvable(Asked[i]) =>
                  /\ i <= Len(docs_to_fetch)
                  /\ docs_to_fetch[i] \in Variants(Asked[i])
                  /\ \A s \in Variants(Asked[i]) :
                        ~TupleLess(VersionTuple(docs_to_fetch[i], Asked[i]),
                                   VersionTuple(s, Asked[i]))
        /\ (RemoteSlugs = <<P39.slug, P310.slug, P38.slug>> /\ Asked = <<<<"p">>>>)
              => docs_to_fetch = <<P310.slug>>

C1_Witness ==
    /\ ResolvedOk
    /\ RemoteSlugs = <<P39.slug, P310.slug, P38.slug>>
    /\ Asked = <<<<"p">>, <<"g", "o">>>>
    /\ docs_to_fetch = <<P310.slug, <<"g", "o">>>>

(* C2: the resolved list is as long as the list asked for; an identifier that *)
(* holds '~', or that no versioned remote slug has as its base, stays as it   *)
(* is at its position; the caller's list is the one it handed over.           *)
C2_PassThrough ==
    ResolvedOk =>
        /\ Len(docs_to_fetch) = Len(Asked)
        /\ \A i \in 1..Len(Asked) :
              ~Resolvable(Asked[i]) => docs_to_fetch[i] = Asked[i]
        /\ input.docs = call.docs

C2_Witness ==
    /\ ResolvedOk
    /\ Asked = <<P39.slug, <<"g", "o">>>>
    /\ RemoteSlugs = <<P39.slug, P310.slug, Go.slug>>
    /\ docs_to_fetch = Asked

\* the remote index lists both p~4.b and p~4.0 and no higher version of p
BetaAndZero ==
    /\ ResolvedOk
    /\ {P4b.slug, P40.slug} \subseteq Range(RemoteSlugs)
    /\ \A s \in Variants(<<"p">>) :
          ~TupleLess(VersionTuple(P40.slug, <<"p">>), VersionTuple(s, <<"p">>))

PositionIn(seq, x) == CHOOSE i \in 1..Len(seq) : seq[i] = x

(* C9, as stated: with both p~4.b and p~4.0 in the remote index and no higher *)
(* version, in either order, the bare name p resolves to p~4.0.               *)
C9_BetaBelowZero ==
    BetaAndZero =>
        \A i \in 1..Len(Asked) : Asked[i] = <<"p">> => docs_to_fetch[i] = P40.slug

(* C9, amended: 4.b and 4.0 parse to the same tuple (4, 0), so neither sorts  *)
(* below the other; the stable sort keeps them in remote order and the bare   *)
(* name resolves to whichever of the two the remote index lists later.        *)
C9_BetaTiesWithZero ==
    /\ parse_version_to_tuple(<<"4", ".", "b">>) = parse_version_to_tuple(<<"4", ".", "0">>)
    /\ BetaAndZero =>
          \A i \in 1..Len(Asked) :
              Asked[i] = <<"p">> =>
                  docs_to_fetch[i] =
                      IF PositionIn(RemoteSlugs, P4b.slug) > PositionIn(RemoteSlugs, P40.slug)
                      THEN P4b.slug ELSE P40.slug

C9_Witness ==
    /\ BetaAndZero
    /\ RemoteSlugs = <<P4.slug, P40.slug, P4b.slug>>
    /\ Asked = <<<<"p">>>>
    /\ docs_to_fetch = <<P4b.slug>>

\* the name contains the whitespace-trimmed filter, ignoring case
NameHolds(q, name) == Contains(lower(strip(q)), lower(name))

SameScore(r, s) == ~RatioLess(r, s) /\ ~RatioLess(s, r)

\* the entries of s scoring against q as x does, in the order of s
ScoringAs(s, x, q) ==
    LET Same(e) == SameScore(ratio(e.name, q), ratio(x.name, q)) IN SelectSeq(s, Same)

\* the entries of s whose name holds q, in the order of s
Holding(s, q) == LET Holds(e) == NameHolds(q, e.name) IN SelectSeq(s, Holds)

\* a finished get_doc_entries with a filter, on a slug with an entries file
FilteredEntries ==
    /\ call.op = "get_doc_entries"
    /\ Truthy(call.query)
    /\ call.slug \in DOMAIN persisted

(* C7: with a filter, get_doc_entries returns the persisted entries whose     *)
(* name contains the trimmed filter ignoring case, by descending similarity   *)
(* ratio (within [0,1]) to the raw filter, equal scores in file order; an     *)
(* entry named exactly as the filter precedes every other entry; for foobar,  *)
(* foo and the filter foo, foo comes first.                                   *)
C7_RankedEntries ==
    FilteredEntries =>
        LET q == call.query
            data == persisted[call.slug].entries
            res == ret.value
        IN  /\ ret.status = "ok"
            /\ \A x \in Range(data) \cup Range(res) :
                  ScoringAs(res, x, q) = ScoringAs(Holding(data, q), x, q)
            /\ \A i, j \in 1..Len(res) :
                  i < j => ~RatioLess(ratio(res[i].name, q), ratio(res[j].name, q))
            /\ \A i \in 1..Len(res) :
                  /\ 0 <= ratio(res[i].name, q).num
                  /\ ratio(res[i].name, q).num <= ratio(res[i].name, q).den
            /\ \A i, j \in 1..Len(res) :
                  (res[i].name = q /\ res[j].name # q) => i < j
            /\ (data = <<FooBarLong, Foo>> /\ q = Foo.name) => res = <<Foo, FooBarLong>>

C7_Witness ==
    /\ FilteredEntries
    /\ persisted[call.slug].entries = <<FooBarLong, FooCap, Foo>>
    /\ call.query = Foo.name
    /\ ret = Returned(<<Foo, FooBarLong, FooCap>>)

(* C8: get_docs returns the descriptors of the index file whose name contains *)
(* the trimmed filter ignoring case, in file order, and the whole file with   *)
(* no filter; it leaves the index file as it was; the filter Py on Python, Go *)
(* returns only Python.                                                       *)
C8_ListedDocs ==
    call.op = "get_docs" =>
        LET q == call.query
            data == input.docs.val
            keep == {i \in 1..Len(data) : q = <<>> \/ NameHolds(q, data[i].name)}
        IN  /\ ret.status = "ok"
            /\ ListsInOrder(ret.value, data, keep)
            /\ fs.index_file = File(DumpDocs(data))
            /\ (data = <<P310, Go>> /\ q = <<"P", "y">>) => ret.value = <<P310>>

C8_Witness ==
    /\ call.op = "get_docs"
    /\ input.docs.val = <<P310, Go, PyGo>>
    /\ call.query = <<" ", "p", "Y", " ">>
    /\ ret = Returned(<<P310, PyGo>>)

\* the cache directory, an index file holding [] and an empty entries directory
FreshCache ==
    [cache_dir |-> TRUE, index_file |-> File(<<"[", "]">>), entries_dir |-> TRUE,
     entries |-> NoFiles]

(* C3: the constructor leaves, on a missing or empty cache location, the      *)
(* cache directory, an index file holding [] and an empty entries directory,  *)
(* without a remote call; run again in any state of the cache, the bootstrap  *)
(* changes no file or directory and makes no remote call.                     *)
C3_Bootstrap ==
    /\ call.op = "__init__" => (fs = FreshCache /\ net = <<>>)
    /\ pc # "new" => ensure_cache_dirs(fs) = fs
    /\ call.op = "ensure_cache_dirs" => net = <<>>

C3_Witness ==
    /\ call.op = "ensure_cache_dirs"
    /\ fs.index_file = File(DumpDocs(<<P1, Go>>))
    /\ DOMAIN fs.entries = {P1.slug, Go.slug}

(* C4: after construction the index file always holds a well-formed JSON      *)
(* array, whatever calls were made and whichever remote calls failed, and     *)
(* get_docs and get_doc_by_slug load it without an error.                     *)
C4_IndexWellFormed ==
    pc # "new" =>
        /\ fs.index_file.exists
        /\ LoadDocs(fs.index_file.text).ok
        /\ call.op \in {"get_docs", "get_doc_by_slug"} => ret.status = "ok"

C4_Witness ==
    /\ call.op = "index"
    /\ ret.status = "error"
    /\ Len(net) = 2
    /\ LoadDocs(fs.index_file.text) = Got(<<P1, Go>>, Len(fs.index_file.text) + 1)

(* C5: with no filter, get_doc_entries returns the empty sequence, not an     *)
(* error, for a slug with no entries file, and otherwise the `entries` array  *)
(* of the object fetch_doc_entries last persisted for the slug, as it was.    *)
C5_EntriesRoundTrip ==
    (call.op = "get_doc_entries" /\ ~Truthy(call.query)) =>
        /\ ~EntriesFileExists(fs, call.slug) <=> call.slug \notin DOMAIN persisted
        /\ ret = IF call.slug \in DOMAIN persisted
                 THEN Returned(persisted[call.slug].entries)
                 ELSE Returned(<<>>)

C5_Witness ==
    /\ call.op = "get_doc_entries"
    /\ call.slug = Go.slug
    /\ ret = Returned(<<FooBar, Foo>>)
    /\ P1.slug \notin DOMAIN persisted

\* the remote calls of the operation that failed
FailedCalls == {k \in 1..Len(net) : ~net[k].ok}

(* C6: a failed remote call is the last one its operation makes (no retry, no *)
(* later fetch) and the operation ends with the error propagated; a failed    *)
(* resolution returns nothing and leaves docs_to_fetch as it was.             *)
C6_Aborts ==
    \A k \in FailedCalls : k = Len(net) /\ pc = "idle" /\ ret = Raised

C6_KeepsDocs ==
    (call'.op = "set_docs_to_fetch" /\ ret'.status = "error")
        => docs_to_fetch' = docs_to_fetch

\* C6: a failed remote call aborts its operation with the error, is never
\* retried, and a failed resolution leaves docs_to_fetch as it was
C6_FailFast == []C6_Aborts /\ [][C6_KeepsDocs]_vars

C6_Witness ==
    /\ call.op = "index"
    /\ net[1].body = <<P1, Go>>
    /\ docs_to_fetch = <<Go.slug, P1.slug>>
    /\ FailedCalls = {2}
    /\ ~EntriesFileExists(fs, Go.slug)

\* the remote index of a running or finished index(), and the positions of
\* the descriptors asked for
IndexBody == net[1].body
WantedAt == {i \in 1..Len(IndexBody) : IndexBody[i].slug \in Range(docs_to_fetch)}
Indexed == LoadDocs(fs.index_file.text).val

(* C10: once index() has fetched the remote index, the index file holds the   *)
(* descriptors of that index whose slug is in docs_to_fetch, in remote order, *)
(* before any entries are fetched; entries are fetched one doc at a time in   *)
(* index order; when index() returns, every slug of the index file has an     *)
(* entries file holding the object fetched for it in that run.                *)
C10_IndexRun ==
    (call.op = "index" /\ ret.status \in {"running", "ok"}) =>
        /\ LoadDocs(fs.index_file.text).ok
        /\ ListsInOrder(Indexed, IndexBody, WantedAt)
        /\ fs.index_file.text = DumpDocs(Indexed)
        /\ Len(net) <= 1 + Len(Indexed)
        /\ \A k \in 2..Len(net) :
              /\ net[k].kind = "entries"
              /\ net[k].slug = Indexed[k - 1].slug
              /\ EntriesFileExists(fs, net[k].slug)
              /\ LoadEntriesObj(fs.entries[net[k].slug].text)
                    = Got(net[k].body, Len(fs.entries[net[k].slug].text) + 1)
        /\ ret.status = "ok" => Len(net) = 1 + Len(Indexed)

C10_Witness ==
    /\ call.op = "index"
    /\ ret.status = "ok"
    /\ IndexBody = <<P1, Go>>
    /\ docs_to_fetch = <<Go.slug>>
    /\ fs.index_file.text = DumpDocs(<<Go>>)
    /\ P1.slug \in DOMAIN fs.entries

====
